---- MODULE Spec2Model ----
(***************************************************************************)
(* Model of movie_rest_orm_api/crud.py: the data-access functions over the *)
(* Movie and Star tables.  The store (the session's database) is the pair  *)
(* of tables movies and stars; last records the most recent call, its      *)
(* arguments and what it returned (or that it raised).                     *)
(***************************************************************************)
EXTENDS Integers, Sequences, FiniteSets, TLC

\* ------------------------------------------------------------- bounds
MaxMovies == 2
MaxStars == 2
MaxIds == 2

\* ------------------------------------------------------------- values
NULL == 0

MovieIds == 1..MaxMovies
StarIds == 1..MaxStars

MovieCreate ==
    { [title |-> "Psycho", year |-> 1960, duration |-> 109],
      [title |-> "Vertigo", year |-> 1958, duration |-> 128] }

StarCreate ==
    { [name |-> "Hitchcock", birthdate |-> "1899-08-13"],
      [name |-> "Leigh", birthdate |-> "NULL"] }

Years == {m.year : m \in MovieCreate}

RECURSIVE SeqsUpTo(_, _)
SeqsUpTo(S, n) ==
    IF n = 0 THEN {<<>>}
    ELSE LET shorter == SeqsUpTo(S, n - 1)
         IN shorter \cup {Append(s, x) : s \in {t \in shorter : Len(t) = n - 1}, x \in S}

StarIdLists == SeqsUpTo(StarIds, MaxIds)

\* ------------------------------------------------------------- state
VARIABLES movies, stars, last

vars == <<movies, stars, last>>

\* What a call hands back: None, an ORM object bound to a row, a scalar,
\* a list of result rows, or an exception that left the function.
None == [kind |-> "None", val |-> NULL]
Raised(exc) == [kind |-> "raised", val |-> exc]
MovieObj(id) == [kind |-> "Movie", val |-> id]
StarObj(id) == [kind |-> "Star", val |-> id]
Scalar(n) == [kind |-> "scalar", val |-> n]
Rows(s) == [kind |-> "rows", val |-> s]

\* The outcome of a call: what it returns and the tables as it leaves them.
Outcome(r, m, s) == [ret |-> r, movies |-> m, stars |-> s]
NoCommit(r) == Outcome(r, movies, stars)

Put(table, id, row) ==
    [i \in (DOMAIN table) \cup {id} |-> IF i = id THEN row ELSE table[i]]
Drop(table, id) == [i \in (DOMAIN table) \ {id} |-> table[i]]

Range(s) == {s[i] : i \in DOMAIN s}

\* ------------------------------------------------------------- Movie reads
get_movie(movie_id) ==
    IF movie_id \in DOMAIN movies
    THEN MovieObj(movie_id)
    ELSE Raised("AttributeError")

get_star(star_id) ==
    IF star_id \in DOMAIN stars THEN StarObj(star_id) ELSE None

get_movies_count == Scalar(Cardinality(DOMAIN movies))

get_movies_count_year(year) == Raised("TypeError")

RECURSIVE Ascending(_)
Ascending(S) ==
    IF S = {} THEN <<>>
    ELSE LET lo == CHOOSE x \in S : \A y \in S : x <= y
         IN <<lo>> \o Ascending(S \ {lo})

get_movies_count_by_year_desc ==
    LET groups == {movies[i].year : i \in DOMAIN movies}
        asc == Ascending(groups)
        order_by == [k \in DOMAIN asc |-> asc[Len(asc) + 1 - k]]
    IN Rows([k \in DOMAIN order_by |->
               <<order_by[k],
                 Cardinality({i \in DOMAIN movies : movies[i].year = order_by[k]})>>])

get_movies_count_by_year ==
    LET groups == {movies[i].year : i \in DOMAIN movies}
        order_by == Ascending(groups)
    IN Rows([k \in DOMAIN order_by |->
               <<order_by[k],
                 Cardinality({i \in DOMAIN movies : movies[i].year = order_by[k]})>>])

\* ------------------------------------------------------------- Movie relations
update_movie_director(movie_id, director_id) ==
    LET db_movie == get_movie(movie_id)
        db_star == get_star(director_id)
    IN IF db_movie.kind = "raised" THEN NoCommit(db_movie)
       ELSE IF db_movie.kind = "None" \/ db_star.kind = "None" THEN NoCommit(None)
       ELSE Outcome(db_movie,
                    [movies EXCEPT ![movie_id].director = director_id],
                    stars)

\* Appending a star the movie already has inserts a second association row:
\* the store either keeps the set as it is or rejects the row.
add_movie_actor(movie_id, star_id, rejects) ==
    LET db_movie == get_movie(movie_id)
        db_star == get_star(star_id)
    IN IF db_movie.kind = "raised" THEN NoCommit(db_movie)
       ELSE IF db_movie.kind = "None" \/ db_star.kind = "None" THEN NoCommit(None)
       ELSE IF star_id \in movies[movie_id].actors /\ rejects
       THEN NoCommit(Raised("IntegrityError"))
       ELSE Outcome(db_movie,
                    [movies EXCEPT ![movie_id].actors = @ \cup {star_id}],
                    stars)

update_movie_actors_unchecked(movie_id, star_id) ==
    LET stars_list == {i \in DOMAIN stars : i \in Range(star_id)}
        db_movie == get_movie(movie_id)
    IN IF db_movie.kind = "raised" THEN NoCommit(db_movie)
       ELSE Outcome(db_movie,
                    [movies EXCEPT ![movie_id].actors = stars_list],
                    stars)

update_movie_actors_extend(movie_id, star_id) ==
    LET stars_list == {i \in DOMAIN stars : i \in Range(star_id)}
        db_movie == get_movie(movie_id)
    IN IF db_movie.kind = "raised" THEN NoCommit(db_movie)
       ELSE IF Cardinality(stars_list) # Len(star_id) THEN NoCommit(None)
       ELSE Outcome(db_movie,
                    [movies EXCEPT ![movie_id].actors = @ \cup stars_list],
                    stars)

update_movie_actors(movie_id, star_id) ==
    LET stars_list == {i \in DOMAIN stars : i \in Range(star_id)}
        db_movie == get_movie(movie_id)
    IN IF db_movie.kind = "raised" THEN NoCommit(db_movie)
       ELSE IF Cardinality(stars_list) # Len(star_id) THEN NoCommit(None)
       ELSE Outcome(db_movie,
                    [movies EXCEPT ![movie_id].actors = stars_list],
                    stars)

\* ------------------------------------------------------------- Movie writes
generated_ids(table, ids) == ids \ DOMAIN table

create_movie_no_duration(movie, id) ==
    LET db_movie == [title |-> movie.title, year |-> movie.year,
                     duration |-> NULL,
                     director |-> NULL, actors |-> {}]
    IN Outcome(MovieObj(id), Put(movies, id, db_movie), stars)

create_movie(movie, id) ==
    LET db_movie == [title |-> movie.title, year |-> movie.year,
                     duration |-> movie.duration,
                     director |-> NULL, actors |-> {}]
    IN Outcome(MovieObj(id), Put(movies, id, db_movie), stars)

update_movie_keeps_duration(movie) ==
    IF movie.id \in DOMAIN movies
    THEN Outcome(MovieObj(movie.id),
                 [movies EXCEPT ![movie.id].title = movie.title,
                                ![movie.id].year = movie.year],
                 stars)
    ELSE NoCommit(None)

update_movie(movie) ==
    IF movie.id \in DOMAIN movies
    THEN Outcome(MovieObj(movie.id),
                 [movies EXCEPT ![movie.id].title = movie.title,
                                ![movie.id].year = movie.year,
                                ![movie.id].duration = movie.duration],
                 stars)
    ELSE NoCommit(None)

delete_movie(movie_id) ==
    IF movie_id \in DOMAIN movies
    THEN Outcome(MovieObj(movie_id), Drop(movies, movie_id), stars)
    ELSE NoCommit(None)

\* ------------------------------------------------------------- Star writes
create_star(star, id) ==
    LET db_star == [name |-> star.name, birthdate |-> star.birthdate]
    IN Outcome(StarObj(id), movies, Put(stars, id, db_star))

update_star(star) ==
    IF star.id \in DOMAIN stars
    THEN Outcome(StarObj(star.id), movies,
                 [stars EXCEPT ![star.id].name = star.name,
                               ![star.id].birthdate = star.birthdate])
    ELSE NoCommit(None)

\* The store's hard delete of a Star row: the association rows naming the star
\* go with it; the director column of the movies is left as it is.
delete_row_star(star_id) ==
    [i \in DOMAIN movies |-> [movies[i] EXCEPT !.actors = @ \ {star_id}]]

delete_star(star_id) ==
    IF star_id \in DOMAIN stars
    THEN Outcome(StarObj(star_id), delete_row_star(star_id), Drop(stars, star_id))
    ELSE NoCommit(None)

\* ------------------------------------------------------------- calls
Init ==
    /\ movies = [i \in {} |-> NULL]
    /\ stars = [i \in {} |-> NULL]
    /\ last = [op |-> "none", args |-> <<>>, ret |-> None]

Call(op, args, out) ==
    /\ last' = [op |-> op, args |-> args, ret |-> out.ret]
    /\ movies' = out.movies
    /\ stars' = out.stars

WithId(fields, id) ==
    [k \in (DOMAIN fields) \cup {"id"} |-> IF k = "id" THEN id ELSE fields[k]]

GetMovie ==
    \E movie_id \in MovieIds :
        Call("get_movie", [movie_id |-> movie_id], NoCommit(get_movie(movie_id)))

GetStar ==
    \E star_id \in StarIds :
        Call("get_star", [star_id |-> star_id], NoCommit(get_star(star_id)))

GetMoviesCount ==
    Call("get_movies_count", <<>>, NoCommit(get_movies_count))

GetMoviesCountYear ==
    \E year \in Years :
        Call("get_movies_count_year", [year |-> year],
             NoCommit(get_movies_count_year(year)))

GetMoviesCountByYear ==
    Call("get_movies_count_by_year", <<>>, NoCommit(get_movies_count_by_year))

UpdateMovieDirector ==
    \E movie_id \in MovieIds, director_id \in StarIds :
        Call("update_movie_director",
             [movie_id |-> movie_id, director_id |-> director_id],
             update_movie_director(movie_id, director_id))

AddMovieActor ==
    \E movie_id \in MovieIds, star_id \in StarIds, rejects \in BOOLEAN :
        Call("add_movie_actor",
             [movie_id |-> movie_id, star_id |-> star_id],
             add_movie_actor(movie_id, star_id, rejects))

UpdateMovieActors ==
    \E movie_id \in MovieIds, star_id \in StarIdLists :
        Call("update_movie_actors",
             [movie_id |-> movie_id, star_id |-> star_id],
             update_movie_actors(movie_id, star_id))

CreateMovie ==
    \E movie \in MovieCreate, id \in generated_ids(movies, MovieIds) :
        Call("create_movie", [movie |-> movie], create_movie(movie, id))

UpdateMovie ==
    \E fields \in MovieCreate, id \in MovieIds :
        Call("update_movie", [movie |-> WithId(fields, id)],
             update_movie(WithId(fields, id)))

DeleteMovie ==
    \E movie_id \in MovieIds :
        Call("delete_movie", [movie_id |-> movie_id], delete_movie(movie_id))

CreateStar ==
    \E star \in StarCreate, id \in generated_ids(stars, StarIds) :
        Call("create_star", [star |-> star], create_star(star, id))

UpdateStar ==
    \E fields \in StarCreate, id \in StarIds :
        Call("update_star", [star |-> WithId(fields, id)],
             update_star(WithId(fields, id)))

DeleteStar ==
    \E star_id \in StarIds :
        Call("delete_star", [star_id |-> star_id], delete_star(star_id))

Next ==
    \/ GetMovie
    \/ GetStar
    \/ GetMoviesCount
    \/ GetMoviesCountYear
    \/ GetMoviesCountByYear
    \/ UpdateMovieDirector
    \/ AddMovieActor
    \/ UpdateMovieActors
    \/ CreateMovie
    \/ UpdateMovie
    \/ DeleteMovie
    \/ CreateStar
    \/ UpdateStar
    \/ DeleteStar

Spec == Init /\ [][Next]_vars

\* The calls that read and write the rows themselves, without the calls that
\* set a movie's director or actors.
NextCrud ==
    \/ GetMovie
    \/ GetStar
    \/ GetMoviesCount
    \/ GetMoviesCountYear
    \/ GetMoviesCountByYear
    \/ CreateMovie
    \/ UpdateMovie
    \/ DeleteMovie
    \/ CreateStar
    \/ UpdateStar
    \/ DeleteStar

SpecCrud == Init /\ [][NextCrud]_vars

\* ------------------------------------------------------------- properties
\* C1: get_movie(movie_id) returns None, raising nothing, when movie_id matches
\* no Movie row, and returns the matching row when there is one.
C1_get_movie_none_on_miss ==
    last.op = "get_movie" =>
        IF last.args.movie_id \in DOMAIN movies
        THEN last.ret = MovieObj(last.args.movie_id)
        ELSE last.ret = None

\* C2: update_movie_actors on an existing movie with a list naming at least one
\* id that is no Star returns None and leaves the movie's actor set as it was.
C2_actors_unchanged_on_unknown_id ==
    [][(/\ last'.op = "update_movie_actors"
        /\ last'.args.movie_id \in DOMAIN movies
        /\ \E k \in DOMAIN last'.args.star_id :
               last'.args.star_id[k] \notin DOMAIN stars)
       => (/\ last'.ret = None
           /\ last'.args.movie_id \in DOMAIN movies'
           /\ movies'[last'.args.movie_id].actors
                  = movies[last'.args.movie_id].actors)]_vars

C2_witness ==
    /\ last.op = "update_movie_actors"
    /\ last.ret = None
    /\ last.args.movie_id \in DOMAIN movies
    /\ movies[last.args.movie_id].actors # {}
    /\ \E k \in DOMAIN last.args.star_id : last.args.star_id[k] \notin DOMAIN stars
    /\ \E k \in DOMAIN last.args.star_id : last.args.star_id[k] \in DOMAIN stars

\* C3: update_movie_director, add_movie_actor and update_movie_actors, called
\* with a movie_id that matches no Movie row, return None without raising and
\* leave the store unchanged.
C3_none_on_missing_movie ==
    [][(/\ last'.op \in {"update_movie_director", "add_movie_actor",
                         "update_movie_actors"}
        /\ last'.args.movie_id \notin DOMAIN movies)
       => (/\ last'.ret = None
           /\ movies' = movies
           /\ stars' = stars)]_vars

\* C4: in every reachable state each movie's director, if set, is an existing
\* Star, and every member of each movie's actor set is an existing Star.
C4_references_exist ==
    \A i \in DOMAIN movies :
        /\ movies[i].director # NULL => movies[i].director \in DOMAIN stars
        /\ movies[i].actors \subseteq DOMAIN stars

\* C5: delete_movie(id) of a stored movie followed by get_movie(id) returns
\* None, and delete_star(id) of a stored star followed by get_star(id)
\* returns None.
C5_get_after_delete_is_none ==
    [][/\ (/\ last.op = "delete_movie"
           /\ last.ret.kind = "Movie"
           /\ last'.op = "get_movie"
           /\ last'.args.movie_id = last.args.movie_id)
          => last'.ret = None
       /\ (/\ last.op = "delete_star"
           /\ last.ret.kind = "Star"
           /\ last'.op = "get_star"
           /\ last'.args.star_id = last.args.star_id)
          => last'.ret = None]_vars

\* C6: update_movie (update_star) with an id that matches no row returns None
\* and leaves every row and association unchanged; with a matching id it
\* overwrites title, year and duration (name and birthdate) and leaves the id,
\* the director and the actor set as they were.
C6_update_overwrites_or_leaves ==
    [][/\ last'.op = "update_movie" =>
            LET movie == last'.args.movie
            IN IF movie.id \notin DOMAIN movies
               THEN last'.ret = None /\ movies' = movies /\ stars' = stars
               ELSE /\ last'.ret = MovieObj(movie.id)
                    /\ DOMAIN movies' = DOMAIN movies
                    /\ movies'[movie.id].title = movie.title
                    /\ movies'[movie.id].year = movie.year
                    /\ movies'[movie.id].duration = movie.duration
                    /\ movies'[movie.id].director = movies[movie.id].director
                    /\ movies'[movie.id].actors = movies[movie.id].actors
       /\ last'.op = "update_star" =>
            LET star == last'.args.star
            IN IF star.id \notin DOMAIN stars
               THEN last'.ret = None /\ movies' = movies /\ stars' = stars
               ELSE /\ last'.ret = StarObj(star.id)
                    /\ DOMAIN stars' = DOMAIN stars
                    /\ stars'[star.id].name = star.name
                    /\ stars'[star.id].birthdate = star.birthdate
                    /\ movies' = movies]_vars

C6_witness ==
    /\ last.op = "update_movie"
    /\ last.ret.kind = "Movie"
    /\ movies[last.args.movie.id].director # NULL
    /\ movies[last.args.movie.id].actors # {}
    /\ movies[last.args.movie.id].title = last.args.movie.title
    /\ \E i \in DOMAIN movies : movies[i].title # last.args.movie.title

RECURSIVE SumCounts(_)
SumCounts(rows) ==
    IF rows = <<>> THEN 0 ELSE Head(rows)[2] + SumCounts(Tail(rows))

\* C7: in every reachable store state the counts of the (year, count) pairs of
\* get_movies_count_by_year sum to get_movies_count, there is exactly one pair
\* per year present in the table, and the pairs are in ascending year order.
C7_counts_by_year_sum_to_count ==
    LET rows == get_movies_count_by_year.val
    IN /\ SumCounts(rows) = get_movies_count.val
       /\ {rows[k][1] : k \in DOMAIN rows} = {movies[i].year : i \in DOMAIN movies}
       /\ \A j, k \in DOMAIN rows : j < k => rows[j][1] < rows[k][1]

C7_witness ==
    /\ last.op = "get_movies_count_by_year"
    /\ Len(last.ret.val) = 2
    /\ last.ret.val = get_movies_count_by_year.val

\* C8: get_movies_count_year(year) returns the number of Movie rows whose year
\* is the given year (0 when there are none) and raises nothing.
C8_count_year_is_scalar ==
    last.op = "get_movies_count_year" =>
        last.ret = Scalar(Cardinality({i \in DOMAIN movies :
                                          movies[i].year = last.args.year}))

\* C9: create_movie (create_star) returns a row with a generated id that is not
\* NULL and is the id of no other row of the table, and a get_movie (get_star)
\* of that id right after it returns a row whose fields equal the input.
C9_create_then_get ==
    [][/\ last'.op = "create_movie" =>
            /\ last'.ret.kind = "Movie"
            /\ last'.ret.val # NULL
            /\ last'.ret.val \notin DOMAIN movies
            /\ DOMAIN movies' = (DOMAIN movies) \cup {last'.ret.val}
            /\ \A i \in DOMAIN movies : movies'[i] = movies[i]
       /\ (/\ last.op = "create_movie"
           /\ last'.op = "get_movie"
           /\ last'.args.movie_id = last.ret.val) =>
            /\ last'.ret = last.ret
            /\ movies'[last'.ret.val].title = last.args.movie.title
            /\ movies'[last'.ret.val].year = last.args.movie.year
            /\ movies'[last'.ret.val].duration = last.args.movie.duration
       /\ last'.op = "create_star" =>
            /\ last'.ret.kind = "Star"
            /\ last'.ret.val # NULL
            /\ last'.ret.val \notin DOMAIN stars
            /\ DOMAIN stars' = (DOMAIN stars) \cup {last'.ret.val}
            /\ \A i \in DOMAIN stars : stars'[i] = stars[i]
       /\ (/\ last.op = "create_star"
           /\ last'.op = "get_star"
           /\ last'.args.star_id = last.ret.val) =>
            /\ last'.ret = last.ret
            /\ stars'[last'.ret.val].name = last.args.star.name
            /\ stars'[last'.ret.val].birthdate = last.args.star.birthdate]_vars

C9_witness ==
    /\ last.op = "create_movie"
    /\ Cardinality(DOMAIN movies) = 2
    /\ get_movie(last.ret.val) = last.ret
    /\ \E i \in DOMAIN movies : i # last.ret.val /\ movies[i].title = last.args.movie.title

\* C10: update_movie_actors on an existing movie with any list, repeats
\* allowed, whose ids are all existing Stars succeeds and leaves the movie's
\* actor set equal to the set of the ids listed.
C10_actors_replaced_by_any_list ==
    [][(/\ last'.op = "update_movie_actors"
        /\ last'.args.movie_id \in DOMAIN movies
        /\ Range(last'.args.star_id) \subseteq DOMAIN stars)
       => (/\ last'.ret = MovieObj(last'.args.movie_id)
           /\ movies'[last'.args.movie_id].actors = Range(last'.args.star_id))]_vars

\* C10 (amended): update_movie_actors on an existing movie with a list of
\* pairwise distinct ids that are all existing Stars succeeds and leaves the
\* movie's actor set equal to the set of the ids listed, whatever it held before.
C10_actors_replaced_by_distinct_list ==
    [][(/\ last'.op = "update_movie_actors"
        /\ last'.args.movie_id \in DOMAIN movies
        /\ Range(last'.args.star_id) \subseteq DOMAIN stars
        /\ \A j, k \in DOMAIN last'.args.star_id :
               j # k => last'.args.star_id[j] # last'.args.star_id[k])
       => (/\ last'.ret = MovieObj(last'.args.movie_id)
           /\ movies'[last'.args.movie_id].actors = Range(last'.args.star_id)
           /\ stars' = stars)]_vars

C10_witness ==
    /\ last.op = "update_movie_actors"
    /\ last.ret.kind = "Movie"
    /\ Len(last.args.star_id) >= 1
    /\ movies[last.args.movie_id].actors = Range(last.args.star_id)
    /\ (DOMAIN stars) \ Range(last.args.star_id) # {}
====
